---- MODULE Spec2Model ----
(***************************************************************************)
(* The DDOT parsing pipeline of ddot_utils.py as a state machine.          *)
(*                                                                         *)
(* A Python str is a sequence of one-character strings, so that slicing,   *)
(* searching and splitting are computed as the code computes them.  A list *)
(* is a sequence, a dict is a function whose DOMAIN is its set of keys.    *)
(* One run of the machine is one call of parse(file_contents): each action *)
(* is one stage of parse, the tokenizer and the per-transaction loop being *)
(* stepped one iteration at a time.                                        *)
(***************************************************************************)
EXTENDS Integers, Sequences, FiniteSets, TLC

VARIABLES
    file_contents,  \* the explicit text handed to parse
    filler,         \* how many copies of FillerLine (each with its "\n") follow file_contents
    tokens,         \* the token list the payload was written from (<<>> when it was not)
    pc,             \* position in parse
    lines,          \* get_lines' result
    transactions,   \* get_transactions' result
    idx,            \* 1-based position of the for loop of parse (line 312)
    test_string,    \* parse_key_value_pairs' remaining string
    kv_pairs,       \* parse_key_value_pairs' result list, then parse's kv_pairs
    this_result,    \* the attribute mapping of the transaction being processed
    results,        \* parse's results list
    outcome,        \* "none" while running, "ok" on return, else the kind of the exception raised
    message,        \* what the raised exception carries
    site_results,   \* the list parse returns
    kv_pairs_str    \* parse_key_value_pairs' argument, when it is run on its own

vars == <<file_contents, filler, tokens, pc, lines, transactions, idx, test_string,
          kv_pairs, this_result, results, outcome, message, site_results, kv_pairs_str>>

(***************************************************************************)
(* Python sequence primitives.                                             *)
(***************************************************************************)
Min(a, b) == IF a < b THEN a ELSE b

\* s[a:b] for 0 <= a, 0 <= b (0-based, end exclusive, clamped to len(s)).
Slice(s, a, b) ==
    LET hi == Min(b, Len(s))
    IN IF a + 1 > hi THEN <<>> ELSE SubSeq(s, a + 1, hi)

\* s[a:]
SliceFrom(s, a) == Slice(s, a, Len(s))

\* F(v), with v evaluated once.
With(v, F(_)) == CHOOSE r \in {F(x) : x \in {v}} : TRUE

\* F(v, w), with v and w evaluated once.
With2(v, w, F(_, _)) == CHOOSE r \in {F(x, y) : x \in {v}, y \in {w}} : TRUE

\* The least j of lo..hi with P(j); -1 when there is none.
First(lo, hi, P(_)) ==
    IF \E j \in lo..hi : P(j)
        THEN CHOOSE j \in lo..hi : P(j) /\ \A k \in lo..(j - 1) : ~P(k)
        ELSE -1

\* c repeated n times
Rep(c, n) == [i \in 1..n |-> c]

RECURSIVE Concat(_)
Concat(ss) == IF ss = <<>> THEN <<>> ELSE Head(ss) \o Concat(Tail(ss))

\* sep.join(ss)
RECURSIVE Join(_, _)
Join(sep, ss) ==
    IF ss = <<>> THEN <<>>
    ELSE IF Len(ss) = 1 THEN ss[1]
    ELSE ss[1] \o sep \o Join(sep, Tail(ss))

(***************************************************************************)
(* Module constants (lines 4-61).                                          *)
(***************************************************************************)
KEY_TO_ATTR_MAPPING ==
    <<"5">> :> "projectNumber" @@
    <<"9","0","0">> :> "stationName" @@
    <<"1","2">> :> "stationName" @@
    <<"8","0","2">> :> "siteTypeCode" @@
    <<"6">> :> "districtCode" @@
    <<"4","1">> :> "countryCode" @@
    <<"7">> :> "stateFipsCode" @@
    <<"8">> :> "countyCode" @@
    <<"4","2">> :> "minorCivilDivisionCode" @@
    <<"9">> :> "latitude" @@
    <<"1","0">> :> "longitude" @@
    <<"1","1">> :> "coordinateAccuracyCode" @@
    <<"3","5">> :> "coordinateMethodCode" @@
    <<"3","6">> :> "coordinateDatumCode" @@
    <<"1","6">> :> "altitude" @@
    <<"1","8">> :> "altitudeAccuracyValue" @@
    <<"1","7">> :> "altitudeMethodCode" @@
    <<"2","2">> :> "altitudeDatumCode" @@
    <<"1","3">> :> "landNet" @@
    <<"1","9">> :> "topographicCode" @@
    <<"2","0">> :> "hydrologicUnitCode" @@
    <<"8","0","1">> :> "basinCode" @@
    <<"8","1","3">> :> "timeZoneCode" @@
    <<"8","1","4">> :> "daylightSavingsTimeFlag" @@
    <<"1","4">> :> "mapName" @@
    <<"1","5">> :> "mapScale" @@
    <<"8","0","3">> :> "agencyUseCode" @@
    <<"3","9">> :> "nationalWaterUseCode" @@
    <<"8","0","4">> :> "dataTypesCode" @@
    <<"8","0","5">> :> "instrumentsCode" @@
    <<"7","1","1">> :> "siteEstablishmentDate" @@
    <<"8","0","6">> :> "remarks" @@
    <<"3","2">> :> "siteWebReadyCode" @@
    <<"3">> :> "dataReliabilityCode" @@
    <<"2","1">> :> "firstConstructionDate" @@
    <<"2","3">> :> "primaryUseOfSiteCode" @@
    <<"3","0","1">> :> "secondaryUseOfSiteCode" @@
    <<"3","0","2">> :> "tertiaryUseOfSiteCode" @@
    <<"2","4">> :> "primaryUseOfWaterCode" @@
    <<"2","5">> :> "secondaryUseOfWaterCode" @@
    <<"2","6">> :> "tertiaryUseOfWaterCode" @@
    <<"7","1","3">> :> "aquiferTypeCode" @@
    <<"7","1","4">> :> "aquiferCode" @@
    <<"7","1","5">> :> "nationalAquiferCode" @@
    <<"2","7">> :> "holeDepth" @@
    <<"2","8">> :> "wellDepth" @@
    <<"2","9">> :> "sourceOfDepthCode" @@
    <<"8","0","8">> :> "drainageArea" @@
    <<"8","0","9">> :> "contributingDrainageArea" @@
    <<"7","1","2">> :> "gwFileCode" @@
    <<"R">> :> "databaseTableIdentifier" @@
    <<"T">> :> "transactionType"

DATABASE_TABLE_ID_TOKEN == <<"R", "=">>

MAX_TRANSACTIONS == 30000

\* What a stage hands back: the exception raised ("none": it returned) and its value.
Raise(kind, msg) == [err |-> kind, message |-> msg, value |-> <<>>]
Return(v) == [err |-> "none", message |-> <<>>, value |-> v]

(***************************************************************************)
(* get_lines and validate_lines (lines 72-127).                            *)
(***************************************************************************)
\* re.split('\r\n|\n', content).  Every "\n" ends a piece; the alternative '\r\n' is
\* tried first at each position, so a "\r" right before that "\n" belongs to the
\* terminator and not to the piece.
RECURSIVE re_split(_)
re_split(str) ==
    LET split(content) ==
            LET IsLF(i) == content[i] = "\n"
                at(n) ==
                    IF n = -1 THEN <<content>>
                    ELSE <<IF n > 1 /\ content[n - 1] = "\r"
                               THEN Slice(content, 0, n - 2)
                               ELSE Slice(content, 0, n - 1)>>
                         \o re_split(SliceFrom(content, n))
            IN With(First(1, Len(content), IsLF), at)
    IN With(str, split)

\* line_category with the test of line 115 put before the test of line 111
line_category_site_first(line) ==
    IF Len(line) < 21 THEN "too_short"
    ELSE IF line[21] # " " THEN "bad_site"
    ELSE IF Len(line) > 80 THEN "too_long"
    ELSE "valid"

\* The branch of the if/elif/elif of lines 111-116 that a line takes.
line_category(line) ==
    IF Len(line) > 80 THEN "too_long"
    ELSE IF Len(line) < 21 THEN "too_short"
    ELSE IF line[21] # " " THEN "bad_site"
    ELSE "valid"

\* The list one category collects: index + 2 of each of its lines, in order.
RECURSIVE category_lines(_, _, _)
category_lines(ls, index, category) ==
    IF index >= Len(ls) THEN <<>>
    ELSE (IF line_category(ls[index + 1]) = category THEN <<index + 2>> ELSE <<>>)
         \o category_lines(ls, index + 1, category)

\* The error message as its clauses in order of appending; "" is <<>>.
validate_lines(ls) ==
    LET too_long_lines == category_lines(ls, 0, "too_long")
        too_short_lines == category_lines(ls, 0, "too_short")
        bad_site_lines == category_lines(ls, 0, "bad_site")
    IN (IF too_long_lines # <<>> THEN << <<"too_long", too_long_lines>> >> ELSE <<>>)
       \o (IF too_short_lines # <<>> THEN << <<"too_short", too_short_lines>> >> ELSE <<>>)
       \o (IF bad_site_lines # <<>> THEN << <<"bad_site", bad_site_lines>> >> ELSE <<>>)

get_lines(content) ==
    IF content = <<>> THEN Raise("EmptyInput", <<>>)
    ELSE LET validated(ls) ==
                 LET raise_or_return(validation_errors) ==
                         IF Len(validation_errors) > 0
                             THEN Raise("ValidationError", validation_errors)
                             ELSE Return(ls)
                 IN With(validate_lines(ls), raise_or_return)
             trimmed(after_header) ==
                 IF after_header = <<>> THEN Raise("NoTransactions", <<>>)
                 ELSE With(IF after_header[Len(after_header)] = <<>>
                               THEN Slice(after_header, 0, Len(after_header) - 1)
                               ELSE after_header,
                           validated)
         IN With(SliceFrom(re_split(content), 1), trimmed)

(***************************************************************************)
(* get_transactions (lines 129-169).                                       *)
(***************************************************************************)
\* (line[0:20], line[21:], index + 2) for each line
parsed_lines(ls) ==
    [i \in 1..Len(ls) |-> <<Slice(ls[i], 0, 20), SliceFrom(ls[i], 21), (i - 1) + 2>>]

\* How many leading elements of parsed share the first one's key (itertools.groupby's run).
RECURSIVE run_length(_, _)
run_length(parsed, key) ==
    IF parsed = <<>> \/ parsed[1][1] # key THEN 0
    ELSE 1 + run_length(Tail(parsed), key)

\* itertools.groupby(parsed_lines, lambda x: x[0]): the consecutive runs, as <<key, run>>.
RECURSIVE groupby(_)
groupby(parsed_lines_left) ==
    LET runs(parsed) ==
            IF parsed = <<>> THEN <<>>
            ELSE LET cut(n) == << <<parsed[1][1], SubSeq(parsed, 1, n)>> >>
                               \o groupby(SliceFrom(parsed, n))
                 IN With(run_length(parsed, parsed[1][1]), cut)
    IN With(parsed_lines_left, runs)

transaction(location, key_value_pairs, line_numbers) ==
    [agencyCode |-> Slice(location, 0, 5),
     siteNumber |-> Slice(location, 5, 20),
     key_value_pairs |-> Join(<<" ">>, key_value_pairs),
     line_numbers |-> line_numbers]

\* new_transaction_detected without the "and key_value_pairs" of line 148
new_transaction_detected_on_token(line, key_value_pairs) ==
    DATABASE_TABLE_ID_TOKEN = Slice(line[2], 0, 2)

\* The test of line 148: a new transaction on the same site.
new_transaction_detected(line, key_value_pairs) ==
    DATABASE_TABLE_ID_TOKEN = Slice(line[2], 0, 2) /\ key_value_pairs # <<>>

\* The inner for loop (lines 146-167) from position i of the group, with its two buffers.
RECURSIVE location_group_loop(_, _, _, _, _)
location_group_loop(location, location_group, i, line_numbers, key_value_pairs) ==
    IF i > Len(location_group)
        THEN <<transaction(location, key_value_pairs, line_numbers)>>
    ELSE LET line == location_group[i]
         IN IF new_transaction_detected(line, key_value_pairs)
                THEN <<transaction(location, key_value_pairs, line_numbers)>>
                     \o location_group_loop(location, location_group, i + 1,
                                            <<line[3]>>, <<line[2]>>)
                ELSE location_group_loop(location, location_group, i + 1,
                                         Append(line_numbers, line[3]),
                                         Append(key_value_pairs, line[2]))

RECURSIVE groups_transactions(_, _)
groups_transactions(groups, g) ==
    IF g > Len(groups) THEN <<>>
    ELSE location_group_loop(groups[g][1], groups[g][2], 1, <<>>, <<>>)
         \o groups_transactions(groups, g + 1)

get_transactions(ls) ==
    LET of_groups(groups) == groups_transactions(groups, 1)
    IN With(groupby(parsed_lines(ls)), of_groups)

(***************************************************************************)
(* parse_key_value_pairs (lines 172-203).                                  *)
(***************************************************************************)
SEPARATOR_TOKENS == {"=", "#"}

VALUE_ENDING_CHARS == {"*", "$"}

\* The characters of \s that a str of the model can hold.
WHITESPACE == {" ", "\t", "\n", "\r", "\f"}

\* 0-based position of the first character of s, from i on, that is in class; -1 if none.
search_char(s, class, i) ==
    LET InClass(j) == s[j + 1] \in class
    IN First(i, Len(s) - 1, InClass)

\* The length of the longest run of whitespace of s that starts at 0-based position i.
whitespace_run(s, i) ==
    LET NotSpace(j) == s[j + 1] \notin WHITESPACE
        stop == First(i, Len(s) - 1, NotSpace)
    IN IF stop = -1 THEN (IF i < Len(s) THEN Len(s) - i ELSE 0) ELSE stop - i

\* SEPARATOR_TOKENS.search(s): re.compile('[=#]')
separator_search(s) ==
    LET start == search_char(s, SEPARATOR_TOKENS, 0)
    IN [found |-> start >= 0, start |-> start, end |-> start + 1]

\* value_ending_search for the pattern [*$] alone, without the \s* of line 181
value_ending_search_no_whitespace(s) ==
    LET start == search_char(s, VALUE_ENDING_CHARS, 0)
    IN [found |-> start >= 0, start |-> start, end |-> start + 1]

\* value_ending_search with a match of length 0 at the ending character
value_ending_search_no_advance(s) ==
    LET start == search_char(s, VALUE_ENDING_CHARS, 0)
    IN [found |-> start >= 0, start |-> start, end |-> start]

\* VALUE_ENDING_TOKENS.search(s): re.compile('[\*\$]\s*'), the \s* greedy
value_ending_search(s) ==
    LET start == search_char(s, VALUE_ENDING_CHARS, 0)
    IN [found |-> start >= 0, start |-> start,
        end |-> start + 1 + whitespace_run(s, start + 1)]

\* One pass of the while loop (lines 189-201) on the remaining string.
kv_iteration(s) ==
    LET separator_match == separator_search(s)
        value_ending_match == value_ending_search(s)
    IN IF ~separator_match.found THEN Raise("MissingSeparator", s)
       ELSE IF ~value_ending_match.found THEN Raise("MissingEndingToken", s)
       ELSE Return([key |-> Slice(s, 0, separator_match.start),
                    value |-> Slice(s, separator_match.end, value_ending_match.start),
                    rest |-> SliceFrom(s, value_ending_match.end)])

\* The while loop from a remaining string and the pairs found so far.
RECURSIVE kv_loop(_, _)
kv_loop(str, pairs) ==
    LET loop(s, result) ==
            IF s = <<>> THEN Return(result)
            ELSE LET next(it) ==
                         IF it.err # "none" THEN it
                         ELSE kv_loop(it.value.rest,
                                      Append(result, <<it.value.key, it.value.value>>))
                 IN With(kv_iteration(s), next)
    IN With2(str, pairs, loop)

parse_key_value_pairs(str) ==
    IF str = <<>> THEN Raise("NoTokens", <<>>)
    ELSE kv_loop(str, <<>>)

(***************************************************************************)
(* The semantic checks and the value normalisers (lines 206-294).          *)
(***************************************************************************)
\* KEY_TO_ATTR_MAPPING.get(key); None is "None"
attr_of(key) ==
    IF key \in DOMAIN KEY_TO_ATTR_MAPPING THEN KEY_TO_ATTR_MAPPING[key] ELSE "None"

\* The for loop of lines 213-219 from pair i on, with its found flag.
RECURSIVE station_name_loop(_, _, _)
station_name_loop(kv, i, found) ==
    IF i > Len(kv) THEN FALSE
    ELSE IF attr_of(kv[i][1]) = "stationName"
        THEN (IF found THEN TRUE ELSE station_name_loop(kv, i + 1, TRUE))
    ELSE station_name_loop(kv, i + 1, found)

has_duplicate_station_name_keys(kv) == station_name_loop(kv, 1, FALSE)

IsT(pair) == pair[1] = <<"T">>

\* has_transaction_type with 1 <= in place of 1 == (line 228)
has_transaction_type_at_least_one(kv) == 1 <= Len(SelectSeq(kv, IsT))

has_transaction_type(kv) == 1 = Len(SelectSeq(kv, IsT))

\* the invalid keys, in order, repeated as often as they occur
NotInMapping(pair) == pair[1] \notin DOMAIN KEY_TO_ATTR_MAPPING

invalid_key_codes(kv) ==
    LET keys(invalid) == [i \in 1..Len(invalid) |-> invalid[i][1]]
    IN With(SelectSeq(kv, NotInMapping), keys)

\* The dict comprehension of line 244: a later pair of the same attribute replaces an earlier.
translate_keys_to_attributes(kv) ==
    LET known == {i \in 1..Len(kv) : kv[i][1] \in DOMAIN KEY_TO_ATTR_MAPPING}
        last(a) == CHOOSE i \in known :
                      /\ KEY_TO_ATTR_MAPPING[kv[i][1]] = a
                      /\ \A j \in known : KEY_TO_ATTR_MAPPING[kv[j][1]] = a => j <= i
    IN [a \in {KEY_TO_ATTR_MAPPING[kv[i][1]] : i \in known} |-> kv[last(a)][2]]

remove_leading_and_trailing_single_quotes(value) ==
    IF value # <<>> /\ value[1] = "'" /\ value[Len(value)] = "'"
        THEN Slice(value, 1, Len(value) - 1)
        ELSE value

update_c_code_to_y_code(value) == IF value = <<"C">> THEN <<"Y">> ELSE value

add_leading_space(value) ==
    IF Len(value) = 0 \/ (value[1] = " " \/ value[1] = "-") THEN value ELSE <<" ">> \o value

\* value[1] of line 286 raises IndexError on a value of one character
add_leading_zero_raises(value) == Len(value) = 1

\* add_leading_zero that leaves only a '1' alone, as its docstring has it
add_leading_zero_one_only(value) ==
    IF Len(value) = 0 \/ value[2] = "1" THEN value
    ELSE Slice(value, 0, 1) \o <<"0">> \o SliceFrom(value, 1)

\* add_leading_zero where it returns
add_leading_zero(value) ==
    IF Len(value) = 0 \/ (value[2] = "1" \/ value[2] = "0") THEN value
    ELSE Slice(value, 0, 1) \o <<"0">> \o SliceFrom(value, 1)

\* too_many_transactions with >= in place of > (line 294)
too_many_transactions_at_ceiling(value) == IF value >= MAX_TRANSACTIONS THEN TRUE ELSE FALSE

too_many_transactions(value) == IF value > MAX_TRANSACTIONS THEN TRUE ELSE FALSE

(***************************************************************************)
(* The body of the for loop of parse (lines 313-348), in three parts.      *)
(***************************************************************************)
\* dict.get(name, default)
Get(d, name, default) == IF name \in DOMAIN d THEN d[name] ELSE default

\* d[name] = f(d[name]) if name in d
Update(d, name, f(_)) == IF name \in DOMAIN d THEN [d EXCEPT ![name] = f(@)] ELSE d

\* Lines 318-332: the four checks in their order; returns this_result.
validate(kv, txn) ==
    IF has_duplicate_station_name_keys(kv)
        THEN Raise("DuplicateStationName", <<txn.line_numbers>>)
    ELSE IF ~has_transaction_type(kv)
        THEN Raise("MissingTransactionType", <<txn.line_numbers>>)
    ELSE IF invalid_key_codes(kv) # <<>>
        THEN Raise("InvalidCodes", <<txn.line_numbers, invalid_key_codes(kv)>>)
    ELSE LET this == ("agencyCode" :> txn.agencyCode) @@ ("siteNumber" :> txn.siteNumber)
                     @@ translate_keys_to_attributes(kv)
         IN IF Get(this, "transactionType", <<>>) \notin {<<"A">>, <<"M">>}
                THEN Raise("InvalidTransactionType", <<txn.line_numbers>>)
                ELSE Return(this)

\* Lines 335-346: the special processing of values.
special_processing(this) ==
    LET last(r3) ==
            IF "longitude" \in DOMAIN r3 /\ add_leading_zero_raises(r3["longitude"])
                THEN Raise("IndexError", <<>>)
                ELSE Return(Update(Update(r3, "longitude", add_leading_zero),
                                   "siteWebReadyCode", update_c_code_to_y_code))
    IN With(Update(Update(Update(this, "stationName",
                                 remove_leading_and_trailing_single_quotes),
                          "latitude", add_leading_space),
                   "longitude", add_leading_space),
            last)

\* One pass of the loop body: the exception it raises, or the mapping it appends.
\* kv and validated are what parse_key_value_pairs and the checks gave before that.
process_transaction(txn) ==
    LET normalise(parsed, checked) ==
            LET finish(special) ==
                    [err |-> special.err, message |-> special.message,
                     value |-> special.value, kv |-> parsed.value,
                     validated |-> checked.value]
            IN With(special_processing(checked.value), finish)
        check(parsed) ==
            IF parsed.err # "none"
                THEN [err |-> parsed.err, message |-> <<txn.line_numbers, parsed.message>>,
                      value |-> <<>>, kv |-> <<>>, validated |-> <<>>]
            ELSE LET after(checked) ==
                         IF checked.err # "none"
                             THEN [err |-> checked.err, message |-> checked.message,
                                   value |-> <<>>, kv |-> parsed.value, validated |-> <<>>]
                             ELSE normalise(parsed, checked)
                 IN With(validate(parsed.value, txn), after)
    IN With(parse_key_value_pairs(txn.key_value_pairs), check)

(***************************************************************************)
(* The end of parse (lines 350-359).                                       *)
(***************************************************************************)
is_site_result(result) ==
    "databaseTableIdentifier" \in DOMAIN result /\ result["databaseTableIdentifier"] = <<"0">>

\* parse without the filter of line 350
filter_site_results_unfiltered(rs) == rs

filter_site_results(rs) == SelectSeq(rs, is_site_result)

\* set([site for site in sites if sites.count(site) > 1])
duplicate_sites(srs) ==
    LET sites == [i \in 1..Len(srs) |-> <<srs[i]["agencyCode"], srs[i]["siteNumber"]>>]
    IN {sites[i] : i \in {j \in 1..Len(sites) :
                             Cardinality({k \in 1..Len(sites) : sites[k] = sites[j]}) > 1}}

(***************************************************************************)
(* parse (lines 296-359), one action per stage.                            *)
(*                                                                         *)
(* The file parse is called on is file_contents followed by filler copies  *)
(* of FillerLine, each ended by "\n"; filler > 0 only after a              *)
(* file_contents that ends with "\n".  FillerLine is a valid line whose    *)
(* payload starts with "R=", so each copy is a transaction of its own that *)
(* passes the loop body and has databaseTableIdentifier "1": the copies    *)
(* add filler to the number of transactions and nothing to site_results.   *)
(* lines, transactions and results hold the part that file_contents gives. *)
(***************************************************************************)
Fail(kind, msg) ==
    /\ outcome' = kind
    /\ message' = msg
    /\ pc' = "done"

\* Line 303.
GetLines ==
    /\ pc = "get_lines"
    /\ \E r \in {get_lines(file_contents)} :
          IF r.err # "none"
              THEN Fail(r.err, r.message) /\ UNCHANGED lines
              ELSE /\ lines' = r.value
                   /\ pc' = "get_transactions"
                   /\ UNCHANGED <<outcome, message>>
    /\ UNCHANGED <<file_contents, filler, tokens, transactions, idx, test_string, kv_pairs,
                   this_result, results, site_results, kv_pairs_str>>

\* Lines 304-305.
GetTransactions ==
    /\ pc = "get_transactions"
    /\ transactions' = get_transactions(lines)
    /\ results' = <<>>
    /\ pc' = "check_count"
    /\ UNCHANGED <<file_contents, filler, tokens, lines, idx, test_string, kv_pairs,
                   this_result, outcome, message, site_results, kv_pairs_str>>

\* Lines 307-310; then the for loop starts, or is over at once.
CheckCount ==
    /\ pc = "check_count"
    /\ IF too_many_transactions(Len(transactions) + filler)
           THEN Fail("TooManyTransactions", <<>>) /\ UNCHANGED idx
           ELSE /\ idx' = 1
                /\ pc' = IF transactions = <<>> THEN "filter" ELSE "loop"
                /\ UNCHANGED <<outcome, message>>
    /\ UNCHANGED <<file_contents, filler, tokens, lines, transactions, test_string, kv_pairs,
                   this_result, results, site_results, kv_pairs_str>>

\* Lines 312-348: one pass of the loop body.
ProcessTransaction ==
    /\ pc = "loop"
    /\ idx <= Len(transactions)
    /\ \E r \in {process_transaction(transactions[idx])} :
          /\ kv_pairs' = r.kv
          /\ this_result' = r.validated
          /\ IF r.err # "none"
                 THEN Fail(r.err, r.message) /\ UNCHANGED <<results, idx>>
                 ELSE /\ results' = Append(results, r.value)
                      /\ idx' = idx + 1
                      /\ pc' = IF idx = Len(transactions) THEN "filter" ELSE "loop"
                      /\ UNCHANGED <<outcome, message>>
    /\ UNCHANGED <<file_contents, filler, tokens, lines, transactions, test_string,
                   site_results, kv_pairs_str>>

\* Lines 350-359.
FilterAndReturn ==
    /\ pc = "filter"
    /\ \E srs \in {filter_site_results(results)} :
       \E duplicates \in {duplicate_sites(srs)} :
          IF duplicates # {}
              THEN Fail("DuplicateSite", duplicates) /\ UNCHANGED site_results
              ELSE /\ site_results' = srs
                   /\ outcome' = "ok"
                   /\ pc' = "done"
                   /\ UNCHANGED message
    /\ UNCHANGED <<file_contents, filler, tokens, lines, transactions, idx, test_string,
                   kv_pairs, this_result, results, kv_pairs_str>>

Next == GetLines \/ GetTransactions \/ CheckCount \/ ProcessTransaction \/ FilterAndReturn

(***************************************************************************)
(* parse_key_value_pairs on its own (lines 183-203), one action per pass   *)
(* of its while loop.                                                      *)
(***************************************************************************)
\* Lines 183-186.
ParseKvStart ==
    /\ pc = "kv_start"
    /\ IF kv_pairs_str = <<>>
           THEN Fail("NoTokens", <<>>) /\ UNCHANGED <<test_string, kv_pairs>>
           ELSE /\ test_string' = kv_pairs_str
                /\ kv_pairs' = <<>>
                /\ pc' = "kv_loop"
                /\ UNCHANGED <<outcome, message>>
    /\ UNCHANGED <<file_contents, filler, tokens, lines, transactions, idx, this_result,
                   results, site_results, kv_pairs_str>>

\* Lines 188-201: one pass.
ParseKvIterate ==
    /\ pc = "kv_loop"
    /\ test_string # <<>>
    /\ \E it \in {kv_iteration(test_string)} :
          IF it.err # "none"
              THEN Fail(it.err, it.message) /\ UNCHANGED <<test_string, kv_pairs>>
              ELSE /\ kv_pairs' = Append(kv_pairs, <<it.value.key, it.value.value>>)
                   /\ test_string' = it.value.rest
                   /\ UNCHANGED <<outcome, message, pc>>
    /\ UNCHANGED <<file_contents, filler, tokens, lines, transactions, idx, this_result,
                   results, site_results, kv_pairs_str>>

\* Line 203, when the loop test fails.
ParseKvReturn ==
    /\ pc = "kv_loop"
    /\ test_string = <<>>
    /\ outcome' = "ok"
    /\ pc' = "done"
    /\ UNCHANGED <<file_contents, filler, tokens, lines, transactions, idx, test_string,
                   kv_pairs, this_result, results, message, site_results, kv_pairs_str>>

KvNext == ParseKvStart \/ ParseKvIterate \/ ParseKvReturn

(***************************************************************************)
(* Inputs.  Every file is a header line and data lines, joined by one line *)
(* terminator, with or without a terminator at the end.                    *)
(***************************************************************************)
MaxLines == 2

Header == <<"H", "D", "R">>

LF == <<"\n">>

CRLF == <<"\r", "\n">>

Terminators == {LF, CRLF}

FileOf(ls, term, trailing) ==
    Join(term, <<Header>> \o ls) \o (IF trailing THEN term ELSE <<>>)

SeqsUpTo(S, n) == UNION {[1..k -> S] : k \in 0..n}

FilesOf(lineSet, n) ==
    {FileOf(ls, term, trailing) :
        ls \in SeqsUpTo(lineSet, n), term \in Terminators, trailing \in BOOLEAN}

\* Site keys: a 5-character agency code and a 15-character site number.
KeyA == <<"U", "S", "G", "S", " ">> \o Rep("0", 14) \o <<"1">>

KeyB == <<"U", "S", "G", "S", " ">> \o Rep("0", 14) \o <<"2">>

DataLine(key, payload) == key \o <<" ">> \o payload

\* "R=0* T=A*": a site-file transaction
PSite == <<"R", "=", "0", "*", " ", "T", "=", "A", "*">>

\* "R=1* T=M*": a transaction of another table
POther == <<"R", "=", "1", "*", " ", "T", "=", "M", "*">>

\* "T=A*": no databaseTableIdentifier; continues the transaction of the line before it
PNoTable == <<"T", "=", "A", "*">>

\* "R=0* T=A* 10=-*": a longitude of one character
PLongitudeDash == <<"R", "=", "0", "*", " ", "T", "=", "A", "*", " ", "1", "0", "=", "-", "*">>

\* "R=1* 5=X*": no T pair, and not for the site file
PNoType == <<"R", "=", "1", "*", " ", "5", "=", "X", "*">>

\* "R=0* T": ends in a token with no separator
PNoSeparator == <<"R", "=", "0", "*", " ", "T">>

MainPayloads == {PSite, POther, PNoTable, PLongitudeDash, PNoType, PNoSeparator}

ShortLine == Rep("A", 5)

MainLines == {DataLine(key, payload) : key \in {KeyA, KeyB}, payload \in MainPayloads}
             \cup {ShortLine}

MainFiles == {<<>>} \cup FilesOf(MainLines, MaxLines)

\* "USGS 000000000000001 R=1* T=A*"
FillerLine == DataLine(KeyA, <<"R", "=", "1", "*", " ", "T", "=", "A", "*">>)

FillerCounts == {MAX_TRANSACTIONS - 1, MAX_TRANSACTIONS, MAX_TRANSACTIONS + 1}

FillerFiles == {FileOf(ls, LF, TRUE) : ls \in SeqsUpTo(MainLines, 1)}

\* The state parse starts in.
Start(content, n) ==
    /\ file_contents = content
    /\ filler = n
    /\ tokens = <<>>
    /\ pc = "get_lines"
    /\ lines = <<>>
    /\ transactions = <<>>
    /\ idx = 0
    /\ test_string = <<>>
    /\ kv_pairs = <<>>
    /\ this_result = <<>>
    /\ results = <<>>
    /\ outcome = "none"
    /\ message = <<>>
    /\ site_results = <<>>
    /\ kv_pairs_str = <<>>

Init ==
    \/ \E content \in MainFiles : Start(content, 0)
    \/ \E content \in FillerFiles, n \in FillerCounts : Start(content, n)

Spec == Init /\ [][Next]_vars

(***************************************************************************)
(* Inputs for line validation: lines of every length class, with a space   *)
(* or another character at offset 20.                                      *)
(***************************************************************************)
MaxShapeLines == 3

\* 80 characters: a valid transaction whose last ending token is followed by spaces
Line80 == DataLine(KeyA, PSite \o Rep(" ", 50))

LineShapes ==
    { <<>>,                         \* an empty line
      Rep("A", 20),                 \* 20 characters
      DataLine(KeyA, <<>>),         \* 21 characters, a space at offset 20
      Rep("A", 21),                 \* 21 characters, no space at offset 20
      Line80,
      Line80 \o <<" ">>,            \* 81 characters, a space at offset 20
      Rep("A", 81) }                \* 81 characters, no space at offset 20

InitLines == \E content \in FilesOf(LineShapes, MaxShapeLines) : Start(content, 0)

SpecLines == InitLines /\ [][Next]_vars

(***************************************************************************)
(* Inputs for grouping: two site keys, payloads that do and do not start   *)
(* with "R=", and the empty payload.                                       *)
(***************************************************************************)
MaxGroupLines == 3

\* "5=X*"
PProject == <<"5", "=", "X", "*">>

GroupLines ==
    {DataLine(key, payload) : key \in {KeyA, KeyB}, payload \in {PSite, PProject, <<>>}}

InitGroup ==
    \E ls \in SeqsUpTo(GroupLines, MaxGroupLines) : Start(FileOf(ls, LF, FALSE), 0)

SpecGroup == InitGroup /\ [][Next]_vars

(***************************************************************************)
(* Inputs for the semantic checks: one data line whose payload is written  *)
(* from a list of pairs, each as key=value*.                               *)
(***************************************************************************)
MaxPairs == 3

SemPairs ==
    { <<<<"9", "0", "0">>, <<"N">>>>,   \* stationName
      <<<<"1", "2">>, <<"N">>>>,        \* stationName, the other code
      <<<<"T">>, <<"A">>>>,
      <<<<"T">>, <<"X">>>>,             \* a transaction type outside A, M
      <<<<"R">>, <<"0">>>>,
      <<<<"Z", "Z">>, <<"N">>>>,        \* a code the table does not have
      <<<<"1", "0">>, <<"-">>>> }       \* a longitude of one character

WritePair(pair) == pair[1] \o <<"=">> \o pair[2] \o <<"*">>

WritePairs(pairs) == Concat([i \in 1..Len(pairs) |-> WritePair(pairs[i])])

InitSem ==
    \E pairs \in SeqsUpTo(SemPairs, MaxPairs) :
        Start(FileOf(<<DataLine(KeyA, WritePairs(pairs))>>, LF, TRUE), 0)

SpecSem == InitSem /\ [][Next]_vars

(***************************************************************************)
(* Inputs for the normalisers: one accepted transaction whose longitude    *)
(* and latitude are a string over spaces, '-' and digits.                  *)
(***************************************************************************)
MaxValueLen == 3

CoordinateChars == {" ", "-", "0", "1", "5"}

CoordinateValues == SeqsUpTo(CoordinateChars, MaxValueLen)

\* "R=0* T=A* 10=<v>* 9=<v>*"
CoordinateLine(v) ==
    DataLine(KeyA, PSite \o <<" ", "1", "0", "=">> \o v \o <<"*", " ", "9", "=">> \o v \o <<"*">>)

InitLon ==
    \E v \in CoordinateValues : Start(FileOf(<<CoordinateLine(v)>>, LF, TRUE), 0)

SpecLon == InitLon /\ [][Next]_vars

(***************************************************************************)
(* Inputs for parse_key_value_pairs: payloads written from a token list,   *)
(* and every string over the six kinds of character the tokenizer tells    *)
(* apart.                                                                  *)
(***************************************************************************)
MaxTokens == 2

MaxPayloadLen == 4

TokenKeys == {<<"5">>, <<"T", " ">>, <<>>}

TokenValues == {<<>>, <<"A", "=">>, <<" ", "#", "B">>}

TokenTrailers == {<<>>, <<" ", "\t">>}

Tokens == [key : TokenKeys, sep : {"=", "#"}, value : TokenValues,
           end : {"*", "$"}, ws : TokenTrailers]

WriteToken(tok) == tok.key \o <<tok.sep>> \o tok.value \o <<tok.end>> \o tok.ws

WriteTokens(toks) == Concat([i \in 1..Len(toks) |-> WriteToken(toks[i])])

\* "5=ABC* T=A*"
ExampleTokens ==
    << [key |-> <<"5">>, sep |-> "=", value |-> <<"A", "B", "C">>, end |-> "*", ws |-> <<" ">>],
       [key |-> <<"T">>, sep |-> "=", value |-> <<"A">>, end |-> "*", ws |-> <<>>] >>

TokenLists == (SeqsUpTo(Tokens, MaxTokens) \ {<<>>}) \cup {ExampleTokens}

RawPayloads == SeqsUpTo({"A", "=", "#", "*", "$", " "}, MaxPayloadLen)

\* The state parse_key_value_pairs is called in.
KvStart(toks, str) ==
    /\ tokens = toks
    /\ kv_pairs_str = str
    /\ pc = "kv_start"
    /\ file_contents = <<>>
    /\ filler = 0
    /\ lines = <<>>
    /\ transactions = <<>>
    /\ idx = 0
    /\ test_string = <<>>
    /\ kv_pairs = <<>>
    /\ this_result = <<>>
    /\ results = <<>>
    /\ outcome = "none"
    /\ message = <<>>
    /\ site_results = <<>>

KvInit ==
    \/ \E toks \in TokenLists : KvStart(toks, WriteTokens(toks))
    \/ \E str \in RawPayloads : KvStart(<<>>, str)

KvSpec == KvInit /\ [][KvNext]_vars

KvInitRaw == \E str \in RawPayloads : KvStart(<<>>, str)

\* The while loop is sequential code: a pass that can be taken is taken.
KvFairSpec == KvInitRaw /\ [][KvNext]_vars /\ WF_vars(KvNext)

(***************************************************************************)
(* Vocabulary of the properties.                                           *)
(***************************************************************************)
LineStageErrors == {"EmptyInput", "NoTransactions", "ValidationError"}

ParseErrorKinds ==
    LineStageErrors \cup
    {"TooManyTransactions", "NoTokens", "MissingSeparator", "MissingEndingToken",
     "DuplicateStationName", "MissingTransactionType", "InvalidCodes",
     "InvalidTransactionType", "DuplicateSite"}

\* The mapping r is a record of the site file.
ForSiteFile(r) ==
    "databaseTableIdentifier" \in DOMAIN r /\ r["databaseTableIdentifier"] = <<"0">>

\* The loop of parse ran to its end: every transaction passed its pass of the loop body.
EveryTransactionPassed ==
    /\ pc \in {"filter", "done"}
    /\ outcome \notin LineStageErrors \cup {"TooManyTransactions"}
    /\ Len(results) = Len(transactions)

\* Two transactions of the site file have the same agency code and site number.
SiteFileDuplicate ==
    \E i, j \in 1..Len(results) :
        /\ i # j
        /\ ForSiteFile(results[i])
        /\ ForSiteFile(results[j])
        /\ transactions[i].agencyCode = transactions[j].agencyCode
        /\ transactions[i].siteNumber = transactions[j].siteNumber

(***************************************************************************)
(* C1.  A returned list holds only records with databaseTableIdentifier    *)
(* "0", one for each such transaction, and no two of the same              *)
(* (agencyCode, siteNumber).  When every transaction passed, parse fails   *)
(* with DuplicateSite exactly when two transactions with                   *)
(* databaseTableIdentifier "0" share agencyCode and siteNumber; the other  *)
(* transactions are filtered out first and never count.                    *)
(***************************************************************************)
C1_SiteResultsAndDuplicates ==
    /\ outcome = "ok" =>
          /\ \A i \in 1..Len(site_results) : ForSiteFile(site_results[i])
          /\ Len(site_results) = Cardinality({i \in 1..Len(results) : ForSiteFile(results[i])})
          /\ \A i, j \in 1..Len(site_results) :
                i # j => \/ site_results[i]["agencyCode"] # site_results[j]["agencyCode"]
                         \/ site_results[i]["siteNumber"] # site_results[j]["siteNumber"]
    /\ (pc = "done" /\ EveryTransactionPassed) =>
          (outcome = "DuplicateSite" <=> SiteFileDuplicate)

\* parse has raised DuplicateSite after every transaction passed.
C1_Witness ==
    /\ pc = "done"
    /\ EveryTransactionPassed
    /\ outcome = "DuplicateSite"
    /\ Len(results) >= 2

(***************************************************************************)
(* C2.  parse ends by returning a list or by raising a ParseError of one   *)
(* of the twelve kinds, and in no other way.                               *)
(***************************************************************************)
C2_OnlyParseErrors == pc = "done" => outcome \in {"ok"} \cup ParseErrorKinds

(***************************************************************************)
(* C3.  For the lines left after the header (and one trailing empty line)  *)
(* are removed, get_lines raises ValidationError exactly when a line is    *)
(* longer than 80, shorter than 21, or has no space at offset 20.  The     *)
(* error names every such line once, under too-long, else too-short, else  *)
(* bad-site, as index + 2, the clauses in that order and only the          *)
(* non-empty ones.  Otherwise get_lines returns the lines as they are.     *)
(***************************************************************************)
\* The category the property gives the line, "valid" when it breaks no rule.
CategoryOf(line) ==
    IF Len(line) > 80 THEN "too_long"
    ELSE IF Len(line) < 21 THEN "too_short"
    ELSE IF line[21] # " " THEN "bad_site"
    ELSE "valid"

C3_Holds(remaining) ==
    LET in_category(c) == {i \in 1..Len(remaining) : CategoryOf(remaining[i]) = c}
        NonEmpty(c) == in_category(c) # {}
        violating == {i \in 1..Len(remaining) :
                         \/ Len(remaining[i]) > 80
                         \/ Len(remaining[i]) < 21
                         \/ remaining[i][21] # " "}
    IN /\ outcome = "ValidationError" <=> violating # {}
       /\ outcome = "ValidationError" =>
             /\ [k \in 1..Len(message) |-> message[k][1]]
                    = SelectSeq(<<"too_long", "too_short", "bad_site">>, NonEmpty)
             /\ \A k \in 1..Len(message) :
                   /\ Len(message[k][2]) = Cardinality(in_category(message[k][1]))
                   /\ {message[k][2][m] : m \in 1..Len(message[k][2])}
                          = {(i - 1) + 2 : i \in in_category(message[k][1])}
             /\ \A i \in violating :
                   Cardinality({k \in 1..Len(message) :
                                   \E m \in 1..Len(message[k][2]) :
                                       message[k][2][m] = (i - 1) + 2}) = 1
       /\ outcome # "ValidationError" => lines = remaining

C3_LineValidation ==
    (pc # "get_lines" /\ outcome \notin {"EmptyInput", "NoTransactions"}) =>
        \E after_header \in {SliceFrom(re_split(file_contents), 1)} :
        \E remaining \in {IF after_header[Len(after_header)] = <<>>
                              THEN SubSeq(after_header, 1, Len(after_header) - 1)
                              ELSE after_header} :
            C3_Holds(remaining)

\* One error that names a line of each of the three categories.
C3_Witness ==
    /\ pc = "done"
    /\ outcome = "ValidationError"
    /\ Len(message) = 3

(***************************************************************************)
(* C4.  A non-empty input that is a header line only, with or without a    *)
(* line terminator after it, makes get_lines raise NoTransactions, and a   *)
(* get_lines that returns never returns an empty list.                     *)
(***************************************************************************)
\* No line terminator, or one that ends the text.
HeaderOnly(content) ==
    /\ content # <<>>
    /\ \A i \in 1..Len(content) : content[i] = "\n" => i = Len(content)

C4_HeaderOnlyRaisesNoTransactions ==
    /\ (pc # "get_lines" /\ filler = 0 /\ HeaderOnly(file_contents)) =>
           outcome = "NoTransactions"
    /\ (pc = "get_transactions" /\ filler = 0) => lines # <<>>

(***************************************************************************)
(* C5.  get_transactions cuts the lines, in order, into runs: a            *)
(* transaction starts at line i exactly when i is the first line, or its   *)
(* site key differs from that of line i-1, or its payload starts with      *)
(* "R=".  The line_numbers of the transactions, put end to end, are        *)
(* 2..n+1; each transaction's are consecutive.                             *)
(***************************************************************************)
StartsTransaction(i) ==
    \/ i = 1
    \/ SubSeq(lines[i], 1, 20) # SubSeq(lines[i - 1], 1, 20)
    \/ (Len(lines[i]) >= 23 /\ lines[i][22] = "R" /\ lines[i][23] = "=")

C5_ContiguousRuns ==
    (pc \in {"check_count", "loop", "filter", "done"} /\ outcome \notin LineStageErrors) =>
        /\ \A k \in 1..Len(transactions) :
              \E ln \in {transactions[k].line_numbers} :
                 /\ ln # <<>>
                 /\ StartsTransaction(ln[1] - 1)
                 /\ \A m \in 2..Len(ln) :
                       ln[m] = ln[m - 1] + 1 /\ ~StartsTransaction(ln[m] - 1)
        /\ Concat([k \in 1..Len(transactions) |-> transactions[k].line_numbers])
               = [i \in 1..Len(lines) |-> i + 1]

\* Two runs of one site key with a run of another key between them stay apart.
C5_Witness ==
    /\ pc = "check_count"
    /\ Len(lines) = 3
    /\ Len(transactions) = 3
    /\ transactions[1].siteNumber = transactions[3].siteNumber
    /\ transactions[1].siteNumber # transactions[2].siteNumber

(***************************************************************************)
(* C6.  On a payload written as tokens key, separator, value, ending       *)
(* character, whitespace, parse_key_value_pairs returns the pairs          *)
(* (key, value) of the tokens in their order, whichever separator and      *)
(* ending character a token uses.  It fails with NoTokens exactly on the   *)
(* empty payload, with MissingSeparator exactly when the remaining string  *)
(* has no '=' or '#', and with MissingEndingToken exactly when it has a    *)
(* separator but no '*' or '$'.                                            *)
(***************************************************************************)
HasChar(s, class) == \E i \in 1..Len(s) : s[i] \in class

C6_TokenizerRoundTrip ==
    pc = "done" =>
        /\ tokens # <<>> =>
              /\ outcome = "ok"
              /\ kv_pairs = [i \in 1..Len(tokens) |-> <<tokens[i].key, tokens[i].value>>]
        /\ tokens = ExampleTokens =>
              kv_pairs = << <<<<"5">>, <<"A", "B", "C">>>>, <<<<"T">>, <<"A">>>> >>
        /\ outcome = "NoTokens" <=> kv_pairs_str = <<>>
        /\ outcome = "MissingSeparator" <=>
              (test_string # <<>> /\ ~HasChar(test_string, {"=", "#"}))
        /\ outcome = "MissingEndingToken" <=>
              (HasChar(test_string, {"=", "#"}) /\ ~HasChar(test_string, {"*", "$"}))

\* Two tokens, the first with '#', '$' and whitespace after it, its value with a '#' inside.
C6_Witness ==
    /\ pc = "done"
    /\ outcome = "ok"
    /\ Len(tokens) = 2
    /\ tokens[1].sep = "#"
    /\ tokens[1].end = "$"
    /\ tokens[1].ws # <<>>
    /\ tokens[1].value = <<" ", "#", "B">>
    /\ tokens[2].sep = "="
    /\ Len(kv_pairs) = 2

(***************************************************************************)
(* C7.  parse ends with the failure of the earliest failing stage: the     *)
(* error of get_lines; else TooManyTransactions when there are more than   *)
(* 30000 transactions (30000 are allowed), whatever the payloads hold;     *)
(* else the error of the first transaction, in document order, whose pass  *)
(* fails, whatever its databaseTableIdentifier; else DuplicateSite; and    *)
(* it returns a list only when nothing failed.  No list is returned with   *)
(* an error.                                                               *)
(***************************************************************************)
\* The outcome the order of the stages gives for the input.
ExpectedOutcome ==
    LET after_loop(passes) ==
            LET failing == {i \in 1..Len(passes) : passes[i].err # "none"}
                site(i) == ForSiteFile(passes[i].value)
            IN IF failing # {}
                   THEN passes[CHOOSE i \in failing : \A j \in failing : i <= j].err
               ELSE IF \E i, j \in 1..Len(passes) :
                          /\ i # j /\ site(i) /\ site(j)
                          /\ passes[i].value["agencyCode"] = passes[j].value["agencyCode"]
                          /\ passes[i].value["siteNumber"] = passes[j].value["siteNumber"]
                   THEN "DuplicateSite"
               ELSE "ok"
        after_group(txns) ==
            IF Len(txns) + filler > 30000 THEN "TooManyTransactions"
            ELSE With([i \in 1..Len(txns) |-> process_transaction(txns[i])], after_loop)
        after_lines(read) ==
            IF read.err # "none" THEN read.err
            ELSE With(get_transactions(read.value), after_group)
    IN With(get_lines(file_contents), after_lines)

C7_EarliestFailingStage ==
    pc = "done" =>
        /\ outcome = ExpectedOutcome
        /\ outcome # "ok" => site_results = <<>>
        /\ outcome = "DuplicateSite" => EveryTransactionPassed

\* More transactions than the ceiling, one of them with a payload that does not tokenize.
C7_Witness ==
    /\ pc = "done"
    /\ outcome = "TooManyTransactions"
    /\ Len(transactions) + filler = 30001
    /\ \E i \in 1..Len(transactions) :
          parse_key_value_pairs(transactions[i].key_value_pairs).err # "none"

(***************************************************************************)
(* C8.  For a transaction whose payload tokenizes, the checks run in a     *)
(* fixed order and the first that fails is reported: DuplicateStationName  *)
(* when two or more pairs have code "900" or "12"; else                    *)
(* MissingTransactionType unless exactly one pair has key "T"; else        *)
(* InvalidCodes, naming every key that is not in the code table; else      *)
(* InvalidTransactionType unless the value of the "T" pair is "A" or "M".  *)
(* The attribute mapping is built exactly when none of the four fails.     *)
(***************************************************************************)
ExpectedCheck(kv) ==
    LET station == {i \in 1..Len(kv) : kv[i][1] \in {<<"9", "0", "0">>, <<"1", "2">>}}
        type == {i \in 1..Len(kv) : kv[i][1] = <<"T">>}
        unknown == {i \in 1..Len(kv) : kv[i][1] \notin DOMAIN KEY_TO_ATTR_MAPPING}
    IN IF Cardinality(station) >= 2 THEN "DuplicateStationName"
       ELSE IF Cardinality(type) # 1 THEN "MissingTransactionType"
       ELSE IF unknown # {} THEN "InvalidCodes"
       ELSE IF \E i \in type : kv[i][2] \notin {<<"A">>, <<"M">>}
           THEN "InvalidTransactionType"
       ELSE "none"

C8_OrderedChecks ==
    (pc \in {"filter", "done"} /\ kv_pairs # <<>>) =>
        \E expected \in {ExpectedCheck(kv_pairs)} :
            /\ expected # "none" =>
                  /\ outcome = expected
                  /\ DOMAIN this_result = {}
                  /\ results = <<>>
            /\ expected = "none" =>
                  /\ DOMAIN this_result # {}
                  /\ outcome \notin {"DuplicateStationName", "MissingTransactionType",
                                     "InvalidCodes", "InvalidTransactionType"}
            /\ outcome = "InvalidCodes" =>
                  message[2] = SelectSeq([i \in 1..Len(kv_pairs) |-> kv_pairs[i][1]],
                                         LAMBDA key : key \notin DOMAIN KEY_TO_ATTR_MAPPING)

\* Two station names win over an unknown code and a missing "T".
C8_Witness ==
    /\ pc = "done"
    /\ outcome = "DuplicateStationName"
    /\ \E i \in 1..Len(kv_pairs) : kv_pairs[i][1] \notin DOMAIN KEY_TO_ATTR_MAPPING
    /\ \A i \in 1..Len(kv_pairs) : kv_pairs[i][1] # <<"T">>

(***************************************************************************)
(* C9.  For the longitude v of an accepted transaction: an empty v is      *)
(* stored as it is; otherwise, with w = v when v starts with a space or    *)
(* '-' and w = ' ' + v when not, the stored longitude is w when w[1] is    *)
(* '1' or '0' and w[0] + '0' + w[1:] when not.  "5" is stored as " 05",    *)
(* "-5" as "-05", "100" as " 100"; a stored longitude that is not empty    *)
(* starts with a space or '-' and then '0' or '1'.  The latitude gets the  *)
(* leading space only.                                                     *)
(***************************************************************************)
LeadingSpace(v) ==
    IF v = <<>> THEN v ELSE IF v[1] \in {" ", "-"} THEN v ELSE <<" ">> \o v

ExpectedLongitude(v) ==
    IF v = <<>> THEN v
    ELSE \* w has two characters or more: the transaction was accepted
         LET w == LeadingSpace(v)
         IN IF w[2] \in {"1", "0"} THEN w ELSE <<w[1], "0">> \o SubSeq(w, 2, Len(w))

IsProperSuffix(t, s) ==
    Len(t) < Len(s) /\ t = SubSeq(s, Len(s) - Len(t) + 1, Len(s))

C10_TokenizerTerminates ==
    /\ <>(pc = "done")
    /\ [](Len(kv_pairs) + Len(test_string) <= Len(kv_pairs_str))
    /\ [][(pc = "kv_loop" /\ test_string # <<>>) =>
              \/ pc' = "done" /\ outcome' \in {"MissingSeparator", "MissingEndingToken"}
              \/ /\ pc' = "kv_loop"
                 /\ IsProperSuffix(test_string', test_string)
                 /\ Len(kv_pairs') = Len(kv_pairs) + 1]_vars

\* The loop came to its end after two passes or more.
C10_Witness ==
    /\ pc = "done"
    /\ outcome = "ok"
    /\ tokens = <<>>
    /\ Len(kv_pairs) >= 2

====
